---- MODULE Spec2Model ----
(***************************************************************************)
(* Challenge / Phase plugin (jcfr/challenge): the Challenge and Phase      *)
(* access-controlled models (server/models) and their REST resources       *)
(* (server/rest), over the host's document store.  Every REST request is   *)
(* one atomic step, except DELETE /challenge/{id}, whose cascade removes   *)
(* one document per step.                                                  *)
(*                                                                         *)
(* Left out: the description / instructions / created / updated / active   *)
(* fields (plain payload that no operation reads back), the text search    *)
(* hook, and host documents not made through this plugin.                  *)
(***************************************************************************)
EXTENDS Integers, Sequences, FiniteSets, TLC

\* ------------------------------------------------------------------ bounds
\* Documents of each kind ever created (ObjectIds are never reused).
MaxChallenges == 2
MaxPhases == 2
MaxGroups == 2
MaxCollections == 2
MaxLimit == 2
MaxOffset == 1

\* ------------------------------------------------------- program constants
\* girder.constants.AccessType
NONE == -1
READ == 0
WRITE == 1
ADMIN == 2

\* getPagingParameters: the default page size
PageSize == 50

Levels == {NONE, READ, WRITE, ADMIN}

\* The users of the host: root is a site administrator, bob is not.
Users == {"root", "bob"}

\* Raw string parameters of the requests, as sequences of characters.
RawNames == { <<>>, <<" ">>, <<"a">>, <<" ", "a", " ">>, <<"b">> }

\* An optional parameter the request does not carry.
Absent == <<"(absent)">>

\* params.get(key, default)
get(raw, default) == IF raw = Absent THEN default ELSE raw

\* ----------------------------------------------------------------- state
VARIABLES
  challenges,   \* challenge_challenge: _id -> document
  phases,       \* challenge_phase: _id -> document
  collections,  \* host collections: _id -> document
  folders,      \* host folders: _id -> document
  groups,       \* host groups: _id -> document
  users,        \* host users: login -> document
  nextId,       \* per kind, the next fresh _id
  rm,           \* the delete cascade and the createChallenge calls in flight
  ctx,          \* the ProgressContext of the last deleteChallenge
  last          \* the last request (or cascade step) and its outcome

vars == <<challenges, phases, collections, folders, groups, users, nextId, rm, ctx, last>>

\* The persisted documents, as one value handed through the model layer.
DB == [challenges |-> challenges, phases |-> phases, collections |-> collections,
       folders |-> folders, groups |-> groups, users |-> users, nextId |-> nextId]

Commit(d) ==
  /\ challenges' = d.challenges
  /\ phases' = d.phases
  /\ collections' = d.collections
  /\ folders' = d.folders
  /\ groups' = d.groups
  /\ users' = d.users
  /\ nextId' = d.nextId

\* -------------------------------------------------------- host primitives
\* Python's str.strip() on a sequence of characters.
RECURSIVE lstrip(_)
lstrip(s) == IF s # <<>> /\ Head(s) = " " THEN lstrip(Tail(s)) ELSE s

RECURSIVE rstrip(_)
rstrip(s) == IF s # <<>> /\ s[Len(s)] = " " THEN rstrip(SubSeq(s, 1, Len(s) - 1)) ELSE s

strip(s) == rstrip(lstrip(s))

Max(a, b) == IF a >= b THEN a ELSE b

RECURSIVE MaxOf(_)
MaxOf(S) == IF S = {} THEN NONE ELSE LET x == CHOOSE y \in S : TRUE IN Max(x, MaxOf(S \ {x}))

InSeq(x, s) == \E i \in 1..Len(s) : s[i] = x

\* The outcome of a model-layer call: err = "ok" or the exception raised.
Ok(d, id) == [err |-> "ok", field |-> "", db |-> d, id |-> id]

Raise(e, f, d) == [err |-> e, field |-> f, db |-> d, id |-> 0]

\* An access list: the level granted to each user and to each group, NONE
\* standing for "no entry".
EmptyAccess == [users |-> [u \in Users |-> NONE], groups |-> [g \in 1..MaxGroups |-> NONE]]

\* AccessControlledModel.setUserAccess / setGroupAccess / setPublic on a document.
setUserAccess(doc, user, level) == [doc EXCEPT !.access.users[user] = level]

\* setGroupAccess left out: the document goes on without the grant.
setGroupAccess_skipped(doc, g, level) == doc

setGroupAccess(doc, g, level) == [doc EXCEPT !.access.groups[g] = level]

setPublic(doc, public) == [doc EXCEPT !.public = public]

\* AccessControlledModel.getAccessLevel / hasAccess: the highest of the public
\* flag, the grants to the user's groups and the grant to the user; a site
\* administrator has ADMIN on everything.
getAccessLevel(d, doc, user) ==
  IF d.users[user].admin THEN ADMIN
  ELSE MaxOf({IF doc.public THEN READ ELSE NONE}
             \cup {doc.access.groups[g] : g \in {x \in DOMAIN doc.access.groups : InSeq(x, d.users[user].groups)}}
             \cup {doc.access.users[user]})

hasAccess(d, doc, user, level) == getAccessLevel(d, doc, user) >= level

\* Collection.createCollection: the host rejects an empty name.
createCollection(d, name, creator, public) ==
  IF strip(name) = <<>> THEN Raise("ValidationException", "name", d)
  ELSE LET id == d.nextId.collection
       IN Ok([d EXCEPT !.collections = (id :> [name |-> strip(name), public |-> public]) @@ @,
                       !.nextId.collection = id + 1], id)

\* -------------------------------------------------------- models/challenge
\* Challenge.validate with the query for a duplicate not leaving the document
\* itself out (the '_id': {'$ne': ...} clause dropped).
Challenge_validate_noSelf(d, doc) ==
  LET name == strip(doc.name)
      duplicate == {i \in DOMAIN d.challenges : d.challenges[i].name = name}
  IN IF name = <<>> THEN [err |-> "ValidationException", field |-> "name", doc |-> doc]
     ELSE IF duplicate # {} THEN [err |-> "ValidationException", field |-> "name", doc |-> doc]
     ELSE [err |-> "ok", field |-> "", doc |-> [doc EXCEPT !.name = name]]

\* Challenge.validate with the query for a duplicate left out.
Challenge_validate_noDuplicate(d, doc) ==
  LET name == strip(doc.name)
  IN IF name = <<>> THEN [err |-> "ValidationException", field |-> "name", doc |-> doc]
     ELSE [err |-> "ok", field |-> "", doc |-> [doc EXCEPT !.name = name]]

\* Challenge.validate: the trimmed document, or the ValidationException.
Challenge_validate(d, doc) ==
  LET name == strip(doc.name)
      duplicate == {i \in DOMAIN d.challenges :
                      d.challenges[i].name = name /\ (doc.id # 0 => i # doc.id)}
  IN IF name = <<>> THEN [err |-> "ValidationException", field |-> "name", doc |-> doc]
     ELSE IF duplicate # {} THEN [err |-> "ValidationException", field |-> "name", doc |-> doc]
     ELSE [err |-> "ok", field |-> "", doc |-> [doc EXCEPT !.name = name]]

Stored(doc) == [k \in (DOMAIN doc) \ {"id"} |-> doc[k]]

\* The write of Model.save made under a uniqueness constraint: the query for
\* a duplicate is run again, as one with the write.
Challenge_write_unique(d, doc) ==
  LET v == Challenge_validate(d, doc)
      id == IF doc.id = 0 THEN d.nextId.challenge ELSE doc.id
  IN IF v.err # "ok" THEN Raise(v.err, v.field, d)
     ELSE Ok([d EXCEPT !.challenges = (id :> Stored(doc)) @@ @,
                       !.nextId.challenge = IF doc.id = 0 THEN id + 1 ELSE @], id)

\* The write of Model.save: insert (fresh _id) or replace, whatever is stored.
Challenge_write(d, doc) ==
  LET id == IF doc.id = 0 THEN d.nextId.challenge ELSE doc.id
  IN Ok([d EXCEPT !.challenges = (id :> Stored(doc)) @@ @,
                  !.nextId.challenge = IF doc.id = 0 THEN id + 1 ELSE @], id)

\* Model.save on a challenge: validate, then write.
Challenge_save(d, doc) ==
  LET v == Challenge_validate(d, doc)
  IN IF v.err # "ok" THEN Raise(v.err, v.field, d)
     ELSE Challenge_write(d, v.doc)

\* Challenge.createChallenge: find or create the collection named `name`,
\* then save the challenge.
Challenge_createChallenge(d, name, creator, public) ==
  LET found == {c \in DOMAIN d.collections : d.collections[c].name = name}
      coll == IF found # {} THEN Ok(d, CHOOSE c \in found : TRUE)
              ELSE createCollection(d, name, creator, public)
      challenge == setUserAccess(
                     setPublic([id |-> 0, name |-> name, creatorId |-> creator,
                                collectionId |-> coll.id, public |-> FALSE,
                                access |-> EmptyAccess], public),
                     creator, ADMIN)
  IN IF coll.err # "ok" THEN coll ELSE Challenge_save(coll.db, challenge)

\* Challenge.remove, one document per step: a phase of the challenge while
\* one is left (Phase.remove), then the challenge itself.  Each deletion is
\* followed by progress.update(increment=1).
Phase_remove(d, p) == [d EXCEPT !.phases = [x \in (DOMAIN @) \ {p} |-> @[x]]]

AccessControlledModel_remove(d, cid) == [d EXCEPT !.challenges = [x \in (DOMAIN @) \ {cid} |-> @[x]]]

\* progress.update(increment=1) lost.
progress_update_lost(c) == c

progress_update(c) == IF c.on THEN [c EXCEPT !.current = @ + 1] ELSE c

\* ------------------------------------------------------------ models/phase
\* Phase.subtreeCount
Phase_subtreeCount(phase) == 1

\* Phase.validate
Phase_validate(doc) ==
  IF doc.name = <<>> THEN [err |-> "ValidationException", field |-> "name", doc |-> doc]
  ELSE [err |-> "ok", field |-> "", doc |-> doc]

\* Model.save on a phase: validate, then insert (fresh _id) or replace.
Phase_save(d, doc) ==
  LET v == Phase_validate(doc)
      id == IF doc.id = 0 THEN d.nextId.phase ELSE doc.id
  IN IF v.err # "ok" THEN Raise(v.err, v.field, d)
     ELSE Ok([d EXCEPT !.phases = (id :> Stored(v.doc)) @@ @,
                       !.nextId.phase = IF doc.id = 0 THEN id + 1 ELSE @], id)

\* Folder.createFolder(allowRename=True): the host rejects an empty name and
\* numbers a name already taken under the same parent.
createFolder(d, parentType, parentId, name, public, creator) ==
  IF strip(name) = <<>> THEN Raise("ValidationException", "name", d)
  ELSE LET id == d.nextId.folder
           taken == {f \in DOMAIN d.folders :
                       /\ d.folders[f].parentType = parentType
                       /\ d.folders[f].parentId = parentId
                       /\ d.folders[f].name = strip(name)}
       IN Ok([d EXCEPT !.folders = (id :> [parentType |-> parentType, parentId |-> parentId,
                                            name |-> strip(name), n |-> Cardinality(taken),
                                            public |-> public]) @@ @,
                       !.nextId.folder = id + 1], id)

\* Group.createGroup: the creator gets ADMIN on the group and is made a member.
createGroup(d, name, creator, public) ==
  LET id == d.nextId.group
      group == setUserAccess([name |-> name, public |-> public, access |-> EmptyAccess],
                             creator, ADMIN)
  IN Ok([d EXCEPT !.groups = (id :> group) @@ @,
                  !.users[creator].groups = Append(@, id),
                  !.nextId.group = id + 1], id)

\* Group.addUser appending without looking whether the group is there.
Group_addUser_noCheck(d, g, user, level) ==
  [d EXCEPT !.users[user].groups = Append(@, g),
            !.groups[g] = setUserAccess(@, user, level)]

\* Group.addUser: append the group to the user's groups unless it is there,
\* then set the user's access on the group.
Group_addUser(d, g, user, level) ==
  [d EXCEPT !.users[user].groups = IF InSeq(g, @) THEN @ ELSE Append(@, g),
            !.groups[g] = setUserAccess(@, user, level)]

\* '{} {} participants'.format(challenge['name'], name)
\* The group name made of the challenge name alone.
groupName_noPhase(challengeName, name) == challengeName \o <<" ", "participants">>

groupName(challengeName, name) == challengeName \o <<" ">> \o name \o <<" ", "participants">>

\* An ObjectId, and the same id kept as the string a request carried.
Oid(g) == [kind |-> "oid", id |-> g]

Str(g) == [kind |-> "str", id |-> g]

\* createPhase making a new group without looking one up by name.
resolveParticipantGroup_noLookup(d, challengeName, name, creator, public, participantGroup) ==
  IF participantGroup # 0 THEN Ok(d, participantGroup)
  ELSE createGroup(d, groupName(challengeName, name), creator, public)

\* The participant group of createPhase: the one passed in (participantGroup
\* # 0), else the group of the canonical name, created if there is none.
resolveParticipantGroup(d, challengeName, name, creator, public, participantGroup) ==
  LET found == {g \in DOMAIN d.groups : d.groups[g].name = groupName(challengeName, name)}
  IN IF participantGroup # 0 THEN Ok(d, participantGroup)
     ELSE IF found # {} THEN Ok(d, CHOOSE g \in found : TRUE)
     ELSE createGroup(d, groupName(challengeName, name), creator, public)

\* Phase.createPhase
Phase_createPhase(d, name, cid, creator, public, participantGroup) ==
  LET challenge == d.challenges[cid]
      folder == createFolder(d, "collection", challenge.collectionId, name, public, creator)
      groundTruthFolder == createFolder(folder.db, "folder", folder.id, <<"Ground truth">>,
                                        FALSE, creator)
      group == resolveParticipantGroup(groundTruthFolder.db, challenge.name, name, creator,
                                       public, participantGroup)
      phase == setGroupAccess(
                 setUserAccess(
                   setPublic([id |-> 0, name |-> name, challengeId |-> cid,
                              folderId |-> folder.id,
                              participantGroupId |-> Oid(group.id),
                              groundTruthFolderId |-> groundTruthFolder.id,
                              public |-> FALSE, access |-> EmptyAccess], public),
                   creator, ADMIN),
                 group.id, READ)
  IN IF folder.err # "ok" THEN folder
     ELSE IF groundTruthFolder.err # "ok" THEN groundTruthFolder
     ELSE IF group.err # "ok" THEN group
     ELSE Phase_save(group.db, phase)

\* Phase.updatePhase
Phase_updatePhase(d, phase) == Phase_save(d, phase)

\* Challenge.subtreeCount: 1 plus the size of each phase of the challenge.
RECURSIVE SumSubtree(_, _)
SumSubtree(d, P) ==
  IF P = {} THEN 0
  ELSE LET p == CHOOSE x \in P : TRUE
       IN Phase_subtreeCount(d.phases[p]) + SumSubtree(d, P \ {p})

\* The query matching the phase's own _id instead of its challengeId.
PhasesOf_byId(d, cid) == {p \in DOMAIN d.phases : p = cid}

\* find({'challengeId': challenge['_id']})
PhasesOf(d, cid) == {p \in DOMAIN d.phases : d.phases[p].challengeId = cid}

\* Challenge.subtreeCount starting its count at 0.
Challenge_subtreeCount_noSelf(d, cid) == SumSubtree(d, PhasesOf(d, cid))

Challenge_subtreeCount(d, cid) == 1 + SumSubtree(d, PhasesOf(d, cid))

\* ------------------------------------------------------------------- list
\* The order of a cursor sorted by name: strings compare by code point.
Code(c) == CASE c = " " -> 32 [] c = "a" -> 97 [] c = "b" -> 98 [] OTHER -> 127

RECURSIVE NameLess(_, _)
NameLess(a, b) ==
  IF b = <<>> THEN FALSE
  ELSE IF a = <<>> THEN TRUE
  ELSE IF Code(Head(a)) # Code(Head(b)) THEN Code(Head(a)) < Code(Head(b))
  ELSE NameLess(Tail(a), Tail(b))

\* Documents of equal name come in the order they were inserted.
Before(docs, x, y) ==
  \/ NameLess(docs[x].name, docs[y].name)
  \/ (docs[x].name = docs[y].name /\ x < y)

\* Model.find(query, limit=0, sort=sort): the ids S that match, sorted.
RECURSIVE find(_, _)
find(docs, S) ==
  IF S = {} THEN <<>>
  ELSE LET x == CHOOSE y \in S : \A z \in S \ {y} : Before(docs, y, z)
       IN <<x>> \o find(docs, S \ {x})

\* The loop of AccessControlledModel.filterResultsByPermission: a result the
\* user may read is skipped while skipped < offset and yielded otherwise; the
\* loop stops once count = limit, tested after each result.
RECURSIVE filterLoop(_, _, _, _, _, _, _, _, _)
filterLoop(d, docs, cursor, user, level, limit, offset, count, skipped) ==
  IF cursor = <<>> THEN <<>>
  ELSE LET r == Head(cursor)
           ok == hasAccess(d, docs[r], user, level)
           yields == ok /\ skipped >= offset
           count2 == IF yields THEN count + 1 ELSE count
           skipped2 == IF ok /\ skipped < offset THEN skipped + 1 ELSE skipped
       IN (IF yields THEN <<r>> ELSE <<>>)
          \o (IF count2 = limit THEN <<>>
              ELSE filterLoop(d, docs, Tail(cursor), user, level, limit, offset, count2, skipped2))

\* filterResultsByPermission with the offset taken off the cursor before the
\* permission filter.
filterResultsByPermission_offsetFirst(d, docs, cursor, user, level, limit, offset) ==
  filterLoop(d, docs, SubSeq(cursor, offset + 1, Len(cursor)), user, level, limit, 0, 0, 0)

filterResultsByPermission(d, docs, cursor, user, level, limit, offset) ==
  filterLoop(d, docs, cursor, user, level, limit, offset, 0, 0)

\* Challenge.list
Challenge_list(d, user, limit, offset) ==
  filterResultsByPermission(d, d.challenges, find(d.challenges, DOMAIN d.challenges),
                            user, READ, limit, offset)

\* Phase.list
Phase_list(d, cid, user, limit, offset) ==
  filterResultsByPermission(d, d.phases, find(d.phases, PhasesOf(d, cid)),
                            user, READ, limit, offset)

\* ------------------------------------------------------------------- rest
\* The request threads that run createChallenge side by side.
Threads == {1, 2}

\* A thread that is not inside createChallenge.
NoDoc == [id |-> 0, name |-> <<>>, creatorId |-> "root", collectionId |-> 0,
          public |-> FALSE, access |-> EmptyAccess]

NoCreate == [pc |-> "idle", user |-> "root", public |-> FALSE, doc |-> NoDoc]

Idle == [pc |-> "idle", challenge |-> 0, user |-> "root", create |-> [t \in Threads |-> NoCreate]]

NoProgress == [on |-> FALSE, total |-> 0, current |-> 0]

\* A request and its outcome: the operation, the caller, the document the
\* path or challengeId names, the exception ("ok" if none) with its field,
\* the _id of the document made, and the participant group passed on.
Req(op, user, target, err, field, id, arg) ==
  [op |-> op, user |-> user, target |-> target, err |-> err, field |-> field,
   id |-> id, arg |-> arg]

\* A request that ends in an exception before anything is written.  (The
\* ProgressContext of a deleteChallenge is gone once the next request starts.)
Rejected(op, user, target, err) ==
  /\ last' = Req(op, user, target, err, "", 0, 0)
  /\ ctx' = NoProgress
  /\ UNCHANGED <<challenges, phases, collections, folders, groups, users, nextId, rm>>

\* A request that only reads.
Answered(op, user, target) ==
  /\ last' = Req(op, user, target, "ok", "", 0, 0)
  /\ ctx' = NoProgress
  /\ UNCHANGED <<challenges, phases, collections, folders, groups, users, nextId, rm>>

\* The decorators with deleteChallenge asking for WRITE only.
requiredLevel_deleteWrite(op) ==
  CASE op = "updateChallenge" -> WRITE
    [] op = "updateChallengeAccess" -> ADMIN
    [] op = "getChallengeAccess" -> ADMIN
    [] op = "deleteChallenge" -> WRITE
    [] op = "listPhases" -> READ
    [] op = "createPhase" -> WRITE
    [] op = "getPhaseAccess" -> ADMIN
    [] op = "updatePhaseAccess" -> ADMIN
    [] op = "updatePhase" -> WRITE
    [] op = "joinPhase" -> READ

\* The level each loadmodel decorator asks for.
requiredLevel(op) ==
  CASE op = "updateChallenge" -> WRITE
    [] op = "updateChallengeAccess" -> ADMIN
    [] op = "getChallengeAccess" -> ADMIN
    [] op = "deleteChallenge" -> ADMIN
    [] op = "listPhases" -> READ
    [] op = "createPhase" -> WRITE
    [] op = "getPhaseAccess" -> ADMIN
    [] op = "updatePhaseAccess" -> ADMIN
    [] op = "updatePhase" -> WRITE
    [] op = "joinPhase" -> READ

\* loadmodel: whether the caller may act on the document at the level asked.
loadmodel(op, doc, user) == hasAccess(DB, doc, user, requiredLevel(op))

\* Model.load(id, user=user, level=READ) on a group: 0 for None (no such
\* group), otherwise the group or the AccessException.
loadGroup(d, g, user) ==
  IF g \notin DOMAIN d.groups THEN Ok(d, 0)
  ELSE IF ~hasAccess(d, d.groups[g], user, READ) THEN Raise("AccessException", "", d)
  ELSE Ok(d, g)

\* ---------------------------------------------------------- rest/challenge
\* POST /challenge (access.admin)
rest_createChallenge(user, raw, public) ==
  /\ rm.pc = "idle"
  /\ nextId.challenge <= MaxChallenges
  /\ nextId.collection <= MaxCollections
  /\ IF ~users[user].admin
     THEN Rejected("createChallenge", user, 0, "AccessException")
     ELSE LET r == Challenge_createChallenge(DB, strip(raw), user, public)
          IN /\ Commit(r.db)
             /\ last' = Req("createChallenge", user, 0, r.err, r.field, r.id, 0)
             /\ ctx' = NoProgress
             /\ UNCHANGED rm

\* POST /challenge on thread t, one step per database call, so that two
\* calls can interleave.  First step: the admin check and
\* Collection.findOne({'name': name}); collectionId 0 stands for None.
create_find(t, user, raw, public) ==
  /\ rm.pc = "idle"
  /\ rm.create[t].pc = "idle"
  /\ nextId.challenge + Cardinality({u \in Threads : rm.create[u].pc # "idle"}) <= MaxChallenges
  /\ nextId.collection + Cardinality({u \in Threads : rm.create[u].pc = "found"}) <= MaxCollections
  /\ IF ~users[user].admin
     THEN Rejected("createChallenge", user, 0, "AccessException")
     ELSE LET name == strip(raw)
              found == {c \in DOMAIN collections : collections[c].name = name}
              doc == [NoDoc EXCEPT !.name = name, !.creatorId = user,
                                   !.collectionId = IF found # {} THEN CHOOSE c \in found : TRUE
                                                    ELSE 0]
          IN /\ rm' = [rm EXCEPT !.create[t] = [pc |-> "found", user |-> user,
                                                public |-> public, doc |-> doc]]
             /\ last' = Req("createChallenge", user, 0, "running", "", 0, t)
             /\ ctx' = NoProgress
             /\ UNCHANGED <<challenges, phases, collections, folders, groups, users, nextId>>

\* Second step: createCollection if none was found, and the challenge
\* document.  The host validates the collection's name and then inserts it:
\* when another call has inserted a collection of that name since the
\* findOne, the host's own check has either seen it (dupSeen, a
\* ValidationException) or run before it (a second collection of the name).
create_collection(t, dupSeen) ==
  /\ rm.create[t].pc = "found"
  /\ LET c == rm.create[t]
         dup == {x \in DOMAIN collections : collections[x].name = c.doc.name}
         coll == IF c.doc.collectionId # 0 THEN Ok(DB, c.doc.collectionId)
                 ELSE IF dup # {} /\ dupSeen THEN Raise("ValidationException", "name", DB)
                 ELSE createCollection(DB, c.doc.name, c.user, c.public)
         challenge == setUserAccess(setPublic([c.doc EXCEPT !.collectionId = coll.id], c.public),
                                    c.user, ADMIN)
     IN /\ Commit(coll.db)
        /\ rm' = [rm EXCEPT !.create[t] = IF coll.err # "ok" THEN NoCreate
                                          ELSE [c EXCEPT !.pc = "built", !.doc = challenge]]
        /\ last' = Req("createChallenge", c.user, 0,
                       IF coll.err # "ok" THEN coll.err ELSE "running", coll.field, 0, t)
        /\ ctx' = NoProgress

\* Third step: Challenge.validate, the query for a duplicate name.
create_validate(t) ==
  /\ rm.create[t].pc = "built"
  /\ LET c == rm.create[t]
         v == Challenge_validate(DB, c.doc)
     IN /\ rm' = [rm EXCEPT !.create[t] = IF v.err # "ok" THEN NoCreate
                                          ELSE [c EXCEPT !.pc = "validated", !.doc = v.doc]]
        /\ last' = Req("createChallenge", c.user, 0,
                       IF v.err # "ok" THEN v.err ELSE "running", v.field, 0, t)
        /\ ctx' = NoProgress
        /\ UNCHANGED <<challenges, phases, collections, folders, groups, users, nextId>>

\* Fourth step: the write of the validated document; the request returns.
create_write(t) ==
  /\ rm.create[t].pc = "validated"
  /\ LET c == rm.create[t]
         r == Challenge_write(DB, c.doc)
     IN /\ Commit(r.db)
        /\ rm' = [rm EXCEPT !.create[t] = NoCreate]
        /\ last' = Req("createChallenge", c.user, 0, r.err, r.field, r.id, t)
        /\ ctx' = NoProgress

\* PUT /challenge/{id}
rest_updateChallenge(user, id, raw) ==
  /\ rm.pc = "idle"
  /\ id \in DOMAIN challenges
  /\ IF ~loadmodel("updateChallenge", challenges[id], user)
     THEN Rejected("updateChallenge", user, id, "AccessException")
     ELSE LET doc == [challenges[id] @@ [id |-> id] EXCEPT !.name = strip(get(raw, @))]
              r == Challenge_save(DB, doc)
          IN /\ Commit(r.db)
             /\ last' = Req("updateChallenge", user, id, r.err, r.field, 0, 0)
             /\ ctx' = NoProgress
             /\ UNCHANGED rm

\* The access parameter of PUT .../access: text that is not JSON, or a list
\* granting ADMIN to root and some level to bob.
BobAccess(l) == [EmptyAccess EXCEPT !.users = [u \in Users |-> IF u = "root" THEN ADMIN ELSE l]]

NotJSON == [json |-> FALSE, value |-> EmptyAccess]

AccessParams == {NotJSON} \cup {[json |-> TRUE, value |-> BobAccess(l)] : l \in Levels}

\* AccessControlledModel.setAccessList
setAccessList(doc, access) == [doc EXCEPT !.access = access]

\* PUT /challenge/{id}/access
rest_updateChallengeAccess(user, id, public, access) ==
  /\ rm.pc = "idle"
  /\ id \in DOMAIN challenges
  /\ IF ~loadmodel("updateChallengeAccess", challenges[id], user)
     THEN Rejected("updateChallengeAccess", user, id, "AccessException")
     ELSE IF ~access.json
     THEN Rejected("updateChallengeAccess", user, id, "RestException")
     ELSE LET doc == setAccessList(setPublic(challenges[id] @@ [id |-> id], public), access.value)
              r == Challenge_save(DB, doc)
          IN /\ Commit(r.db)
             /\ last' = Req("updateChallengeAccess", user, id, r.err, r.field, 0, 0)
             /\ ctx' = NoProgress
             /\ UNCHANGED rm

\* GET /challenge/{id}/access
rest_getChallengeAccess(user, id) ==
  /\ rm.pc = "idle"
  /\ id \in DOMAIN challenges
  /\ IF ~loadmodel("getChallengeAccess", challenges[id], user)
     THEN Rejected("getChallengeAccess", user, id, "AccessException")
     ELSE Answered("getChallengeAccess", user, id)

\* DELETE /challenge/{id}: the access check, the progress total, and the
\* start of Challenge.remove.
rest_deleteChallenge(user, id, progress) ==
  /\ rm.pc = "idle"
  /\ id \in DOMAIN challenges
  /\ IF ~loadmodel("deleteChallenge", challenges[id], user)
     THEN Rejected("deleteChallenge", user, id, "AccessException")
     ELSE /\ rm' = [Idle EXCEPT !.pc = "phases", !.challenge = id, !.user = user]
          /\ ctx' = [on |-> progress,
                     total |-> IF progress THEN Challenge_subtreeCount(DB, id) ELSE 0,
                     current |-> 0]
          /\ last' = Req("deleteChallenge", user, id, "running", "", 0, 0)
          /\ UNCHANGED <<challenges, phases, collections, folders, groups, users, nextId>>

\* Challenge.remove, the loop body: Phase.remove on the next phase of the cursor.
remove_phase ==
  /\ rm.pc = "phases"
  /\ \E p \in PhasesOf(DB, rm.challenge) :
       /\ Commit(Phase_remove(DB, p))
       /\ ctx' = progress_update(ctx)
       /\ last' = Req("remove_phase", rm.user, rm.challenge, "running", "", p, 0)
       /\ UNCHANGED rm

\* Challenge.remove deleting the challenge record before the loop is done.
remove_challenge_first ==
  /\ rm.pc = "phases"
  /\ Commit(AccessControlledModel_remove(DB, rm.challenge))
  /\ ctx' = progress_update(ctx)
  /\ rm' = Idle
  /\ last' = Req("deleteChallenge", rm.user, rm.challenge, "ok", "", 0, 0)

\* Challenge.remove, after the loop: the challenge record, then the last
\* progress update; the request returns.
remove_challenge ==
  /\ rm.pc = "phases"
  /\ PhasesOf(DB, rm.challenge) = {}
  /\ Commit(AccessControlledModel_remove(DB, rm.challenge))
  /\ ctx' = progress_update(ctx)
  /\ rm' = Idle
  /\ last' = Req("deleteChallenge", rm.user, rm.challenge, "ok", "", 0, 0)

\* A storage error raised by the deletion about to be made: the request ends
\* with what has been deleted so far.
remove_abort ==
  /\ rm.pc = "phases"
  /\ rm' = Idle
  /\ last' = Req("deleteChallenge", rm.user, rm.challenge, "StorageError", "", 0, 0)
  /\ UNCHANGED <<challenges, phases, collections, folders, groups, users, nextId, ctx>>

\* -------------------------------------------------------------- rest/phase
\* A request that only reads and answers with a page of ids.
Listed(op, user, target, limit, offset, page) ==
  /\ last' = Req(op, user, target, "ok", "", 0,
                 [limit |-> limit, offset |-> offset, page |-> page])
  /\ ctx' = NoProgress
  /\ UNCHANGED <<challenges, phases, collections, folders, groups, users, nextId, rm>>

\* GET /challenge (access.public)
rest_listChallenges(user, limit, offset) ==
  /\ rm.pc = "idle"
  /\ Listed("listChallenges", user, 0, limit, offset, Challenge_list(DB, user, limit, offset))

\* GET /challenge_phase?challengeId=&limit=&offset=
rest_listPhasesPage(user, cid, limit, offset) ==
  /\ rm.pc = "idle"
  /\ cid \in DOMAIN challenges
  /\ IF ~loadmodel("listPhases", challenges[cid], user)
     THEN Rejected("listPhases", user, cid, "AccessException")
     ELSE Listed("listPhases", user, cid, limit, offset,
                 Phase_list(DB, cid, user, limit, offset))

\* GET /challenge_phase?challengeId= with the default page
rest_listPhases(user, cid) == rest_listPhasesPage(user, cid, PageSize, 0)

\* POST /challenge_phase; participantGroupId = 0 when the parameter is absent.
rest_createPhase(user, cid, raw, public, participantGroupId) ==
  /\ rm.pc = "idle"
  /\ cid \in DOMAIN challenges
  /\ nextId.phase <= MaxPhases
  /\ nextId.group <= MaxGroups
  /\ IF ~loadmodel("createPhase", challenges[cid], user)
     THEN Rejected("createPhase", user, cid, "AccessException")
     ELSE LET group == IF participantGroupId # 0 THEN loadGroup(DB, participantGroupId, user)
                       ELSE Ok(DB, 0)
              r == Phase_createPhase(DB, strip(raw), cid, user, public, group.id)
          IN IF group.err # "ok"
             THEN Rejected("createPhase", user, cid, group.err)
             ELSE /\ Commit(r.db)
                  /\ last' = Req("createPhase", user, cid, r.err, r.field, r.id, group.id)
                  /\ ctx' = NoProgress
                  /\ UNCHANGED rm

\* GET /challenge_phase/{id}/access
rest_getPhaseAccess(user, id) ==
  /\ rm.pc = "idle"
  /\ id \in DOMAIN phases
  /\ IF ~loadmodel("getPhaseAccess", phases[id], user)
     THEN Rejected("getPhaseAccess", user, id, "AccessException")
     ELSE Answered("getPhaseAccess", user, id)

\* PUT /challenge_phase/{id}/access; RestException is not imported in
\* rest/phase.py, so raising it is a NameError.
rest_updatePhaseAccess(user, id, public, access) ==
  /\ rm.pc = "idle"
  /\ id \in DOMAIN phases
  /\ IF ~loadmodel("updatePhaseAccess", phases[id], user)
     THEN Rejected("updatePhaseAccess", user, id, "AccessException")
     ELSE IF ~access.json
     THEN Rejected("updatePhaseAccess", user, id, "NameError")
     ELSE LET doc == setAccessList(setPublic(phases[id] @@ [id |-> id], public), access.value)
              r == Phase_save(DB, doc)
          IN /\ Commit(r.db)
             /\ last' = Req("updatePhaseAccess", user, id, r.err, r.field, 0, 0)
             /\ ctx' = NoProgress
             /\ UNCHANGED rm

\* PUT /challenge_phase/{id}; a participantGroupId parameter is stored as the
\* string it came as (0: the parameter is absent).
rest_updatePhase(user, id, raw, participantGroupId) ==
  /\ rm.pc = "idle"
  /\ id \in DOMAIN phases
  /\ IF ~loadmodel("updatePhase", phases[id], user)
     THEN Rejected("updatePhase", user, id, "AccessException")
     ELSE LET group == IF participantGroupId # 0 THEN loadGroup(DB, participantGroupId, user)
                       ELSE Ok(DB, 0)
              doc == [phases[id] @@ [id |-> id] EXCEPT
                        !.name = strip(get(raw, @)),
                        !.participantGroupId = IF participantGroupId # 0
                                               THEN Str(participantGroupId) ELSE @]
              r == Phase_updatePhase(DB, doc)
          IN IF group.err # "ok"
             THEN Rejected("updatePhase", user, id, group.err)
             ELSE /\ Commit(r.db)
                  /\ last' = Req("updatePhase", user, id, r.err, r.field, 0, participantGroupId)
                  /\ ctx' = NoProgress
                  /\ UNCHANGED rm

\* participantGroupId not in user['groups']: an ObjectId in the list equals
\* an ObjectId, never a string.
inGroups(participantGroupId, userGroups) ==
  participantGroupId.kind = "oid" /\ InSeq(participantGroupId.id, userGroups)

\* POST /challenge_phase/{id}/participant
rest_joinPhase(user, id) ==
  /\ rm.pc = "idle"
  /\ id \in DOMAIN phases
  /\ IF ~loadmodel("joinPhase", phases[id], user)
     THEN Rejected("joinPhase", user, id, "AccessException")
     ELSE IF inGroups(phases[id].participantGroupId, users[user].groups)
     THEN Answered("joinPhase", user, id)
     ELSE LET group == loadGroup(DB, phases[id].participantGroupId.id, user)
          IN IF group.err # "ok" THEN Rejected("joinPhase", user, id, group.err)
             ELSE IF group.id = 0 THEN Rejected("joinPhase", user, id, "TypeError")
             ELSE /\ Commit(Group_addUser(DB, group.id, user, READ))
                  /\ last' = Req("joinPhase", user, id, "ok", "", 0, group.id)
                  /\ ctx' = NoProgress
                  /\ UNCHANGED rm

\* ------------------------------------------------------------------ system
Init ==
  /\ challenges = <<>>
  /\ phases = <<>>
  /\ collections = <<>>
  /\ folders = <<>>
  /\ groups = <<>>
  /\ users = [u \in Users |-> [admin |-> (u = "root"), groups |-> <<>>]]
  /\ nextId = [challenge |-> 1, phase |-> 1, collection |-> 1, folder |-> 1, group |-> 1]
  /\ rm = Idle
  /\ ctx = NoProgress
  /\ last = Req("none", "root", 0, "ok", "", 0, 0)

\* The names a request that is not about names carries.
AccessNames == { <<"a">>, <<"b">> }

\* The life of challenges and their phases: creation, renaming and the
\* delete cascade with its storage errors.
Next ==
  \/ \E u \in Users, raw \in RawNames : rest_createChallenge(u, raw, FALSE)
  \/ \E id \in 1..MaxChallenges, raw \in RawNames \cup {Absent} :
       rest_updateChallenge("root", id, raw)
  \/ \E id \in 1..MaxChallenges, progress \in BOOLEAN : rest_deleteChallenge("root", id, progress)
  \/ remove_phase
  \/ remove_challenge
  \/ remove_abort
  \/ \E id \in 1..MaxChallenges, raw \in {<<"a">>, <<" ">>} :
       rest_createPhase("root", id, raw, FALSE, 0)

Spec == Init /\ [][Next]_vars

\* Phases and their participant groups: root makes and renames challenges
\* and makes phases, with and without a participantGroupId.
NextPhase ==
  \/ \E raw \in AccessNames : rest_createChallenge("root", raw, FALSE)
  \/ \E id \in 1..MaxChallenges, raw \in AccessNames : rest_updateChallenge("root", id, raw)
  \/ \E id \in 1..MaxChallenges, g \in 0..MaxGroups :
       rest_createPhase("root", id, <<"a">>, FALSE, g)

SpecPhase == Init /\ [][NextPhase]_vars

\* Joining: root makes a challenge and its phases, public or not, and sets
\* their participant groups; bob joins.
NextJoin ==
  \/ rest_createChallenge("root", <<"a">>, FALSE)
  \/ \E id \in 1..MaxChallenges, raw \in AccessNames, public \in BOOLEAN :
       rest_createPhase("root", id, raw, public, 0)
  \/ \E id \in 1..MaxPhases, g \in 1..MaxGroups : rest_updatePhase("root", id, Absent, g)
  \/ \E id \in 1..MaxPhases : rest_joinPhase("bob", id)

SpecJoin == Init /\ [][NextJoin]_vars

\* Access control: root makes challenges, root and bob set access lists,
\* and bob sends every request that stands behind a loadmodel level.
NextAccess ==
  \/ rest_createChallenge("root", <<"a">>, FALSE)
  \/ \E id \in 1..MaxChallenges : rest_updateChallenge("bob", id, <<"a">>)
  \/ \E id \in 1..MaxChallenges, l \in Levels :
       rest_updateChallengeAccess("root", id, FALSE, [json |-> TRUE, value |-> BobAccess(l)])
  \/ \E id \in 1..MaxChallenges :
       rest_updateChallengeAccess("bob", id, FALSE, [json |-> TRUE, value |-> BobAccess(NONE)])
  \/ \E id \in 1..MaxChallenges : rest_getChallengeAccess("bob", id)
  \/ \E id \in 1..MaxChallenges : rest_deleteChallenge("bob", id, FALSE)
  \/ remove_phase
  \/ remove_challenge
  \/ \E id \in 1..MaxChallenges : rest_listPhases("bob", id)
  \/ \E id \in 1..MaxChallenges : rest_createPhase("bob", id, <<"a">>, FALSE, 0)
  \/ \E id \in 1..MaxPhases : rest_getPhaseAccess("bob", id)
  \/ \E id \in 1..MaxPhases, l \in {NONE, WRITE} :
       rest_updatePhaseAccess("root", id, FALSE, [json |-> TRUE, value |-> BobAccess(l)])
  \/ \E id \in 1..MaxPhases :
       rest_updatePhaseAccess("bob", id, FALSE, [json |-> TRUE, value |-> BobAccess(NONE)])
  \/ \E id \in 1..MaxPhases : rest_updatePhase("bob", id, <<"b">>, 0)

SpecAccess == Init /\ [][NextAccess]_vars

\* Access lists: root makes a challenge and a phase; root and bob send
\* PUT .../access with and without a well-formed access parameter.
AccessListParams == {NotJSON} \cup {[json |-> TRUE, value |-> BobAccess(l)] : l \in {NONE, ADMIN}}

NextAccessList ==
  \/ rest_createChallenge("root", <<"a">>, FALSE)
  \/ \E id \in 1..MaxChallenges : rest_createPhase("root", id, <<"a">>, FALSE, 0)
  \/ \E u \in Users, id \in 1..MaxChallenges, public \in BOOLEAN, access \in AccessListParams :
       rest_updateChallengeAccess(u, id, public, access)
  \/ \E u \in Users, id \in 1..MaxPhases, public \in BOOLEAN, access \in AccessListParams :
       rest_updatePhaseAccess(u, id, public, access)

SpecAccessList == Init /\ [][NextAccessList]_vars

\* Listing: root makes challenges and phases, public or not; bob asks for
\* pages of them.
\* The name and public flag of the phases made: a private phase sorts before a
\* public one by name, or before or after it by age.
ListedPhases == { <<<<"a">>, FALSE>>, <<<<"a">>, TRUE>>, <<<<"b">>, TRUE>> }

NextList ==
  \/ \E raw \in AccessNames, public \in BOOLEAN : rest_createChallenge("root", raw, public)
  \/ \E id \in 1..MaxChallenges, p \in ListedPhases :
       rest_createPhase("root", id, p[1], p[2], 0)
  \/ \E limit \in 0..MaxLimit, offset \in 0..MaxOffset :
       rest_listChallenges("bob", limit, offset)
  \/ \E id \in 1..MaxChallenges, limit \in 0..MaxLimit, offset \in 0..MaxOffset :
       rest_listPhasesPage("bob", id, limit, offset)

SpecList == Init /\ [][NextList]_vars

\* Making phases: root makes a challenge and lets bob write to it; root and
\* bob make phases, public or not, with and without a participantGroupId.
NextCreatePhase ==
  \/ rest_createChallenge("root", <<"a">>, FALSE)
  \/ \E id \in 1..MaxChallenges :
       rest_updateChallengeAccess("root", id, FALSE, [json |-> TRUE, value |-> BobAccess(WRITE)])
  \/ \E u \in Users, id \in 1..MaxChallenges, raw \in AccessNames, public \in BOOLEAN,
        g \in 0..MaxGroups :
       rest_createPhase(u, id, raw, public, g)

SpecCreatePhase == Init /\ [][NextCreatePhase]_vars

\* Two createChallenge calls side by side, their database calls interleaved.
NextRace ==
  \/ \E t \in Threads, raw \in AccessNames : create_find(t, "root", raw, FALSE)
  \/ \E t \in Threads, dupSeen \in BOOLEAN : create_collection(t, dupSeen)
  \/ \E t \in Threads : create_validate(t)
  \/ \E t \in Threads : create_write(t)

SpecRace == Init /\ [][NextRace]_vars

\* Names with a space inside: 'a b' + 'b' and 'a' + 'b b' make one string.
SpacedChallenges == { <<"a">>, <<"a", " ", "b">> }

SpacedPhases == { <<"b">>, <<"b", " ", "b">> }

\* Shared groups: root makes challenges and phases under such names, none of
\* them with a participantGroupId; bob joins.
NextShared ==
  \/ \E raw \in SpacedChallenges : rest_createChallenge("root", raw, FALSE)
  \/ \E id \in 1..MaxChallenges, raw \in SpacedPhases, public \in BOOLEAN :
       rest_createPhase("root", id, raw, public, 0)
  \/ \E id \in 1..MaxPhases : rest_joinPhase("bob", id)

SpecShared == Init /\ [][NextShared]_vars

\* ================================================================== claims
Persisted == <<challenges, phases, collections, folders, groups, users>>

\* C1: when requests are processed one at a time, no two persisted Challenges
\* have the same name, whatever creations, renames and deletions came before.
C1_UniqueNames ==
  \A i, j \in DOMAIN challenges : i # j => challenges[i].name # challenges[j].name

\* Two challenges are persisted and the last request was a successful rename.
C1_Witness ==
  /\ Cardinality(DOMAIN challenges) = 2
  /\ last.op = "updateChallenge"
  /\ last.err = "ok"
  /\ nextId.challenge = 3

\* The name a createChallenge or updateChallenge step with parameter raw saves.
SavedName(raw) ==
  IF last'.op = "updateChallenge" THEN strip(get(raw, challenges[last'.target].name))
  ELSE strip(raw)

\* Another persisted challenge already bears the name.
NameTaken(name, self) ==
  \E j \in DOMAIN challenges : j # self /\ challenges[j].name = name

\* The step is the save of a challenge named by raw, by a caller allowed to.
IsChallengeSave(raw) ==
  \/ /\ last'.op = "createChallenge"
     /\ raw # Absent
     /\ rest_createChallenge(last'.user, raw, TRUE) \/ rest_createChallenge(last'.user, raw, FALSE)
     /\ users[last'.user].admin
  \/ /\ last'.op = "updateChallenge"
     /\ last'.target \in DOMAIN challenges
     /\ rest_updateChallenge(last'.user, last'.target, raw)
     /\ getAccessLevel(DB, challenges[last'.target], last'.user) >= WRITE

\* C2: every save of a challenge is rejected with a ValidationException on
\* field 'name' exactly when the trimmed name is empty or is the name of
\* another persisted challenge (the challenge being updated left out, so a
\* save that keeps its own name is accepted); a rejected save leaves the
\* persisted challenges as they were.
C2_ValidateRejects ==
  [][\A raw \in RawNames \cup {Absent} :
       IsChallengeSave(raw) =>
         /\ (last'.err = "ValidationException" /\ last'.field = "name")
              <=> (SavedName(raw) = <<>> \/ NameTaken(SavedName(raw), last'.target))
         /\ last'.err \in {"ok", "ValidationException"}
         /\ last'.err = "ValidationException" => challenges' = challenges
         /\ last'.err = "ok" =>
              \E i \in DOMAIN challenges' : challenges'[i].name = SavedName(raw)]_vars

\* A rename was rejected while two challenges are persisted.
C2_Witness ==
  /\ last.op = "updateChallenge"
  /\ last.err = "ValidationException"
  /\ last.field = "name"
  /\ Cardinality(DOMAIN challenges) = 2

\* C3: when Challenge.remove completes, the challenge and every phase of it
\* are gone; a challenge record is only ever deleted once no phase of it is
\* left.
C3_CascadeOrder ==
  [][/\ \A c \in DOMAIN challenges :
          c \notin DOMAIN challenges' =>
            /\ {p \in DOMAIN phases : phases[p].challengeId = c} = {}
            /\ {p \in DOMAIN phases' : phases'[p].challengeId = c} = {}
     /\ (last'.op = "deleteChallenge" /\ last'.err = "ok") =>
          /\ last'.target \in DOMAIN challenges
          /\ last'.target \notin DOMAIN challenges'
          /\ {p \in DOMAIN phases' : phases'[p].challengeId = last'.target} = {}]_vars

\* A cascade over a challenge with two phases has completed.
C3_Witness ==
  /\ last.op = "deleteChallenge"
  /\ last.err = "ok"
  /\ ctx.on
  /\ ctx.current = 3
  /\ phases = <<>>

\* C4: in every reachable state, the steps of a delete cascade and the state
\* an aborted cascade leaves included, the challengeId of every persisted
\* phase is the _id of a persisted challenge.
C4_PhaseHasChallenge ==
  \A p \in DOMAIN phases : phases[p].challengeId \in DOMAIN challenges

\* A cascade aborted on a storage error after one of two phases was deleted.
C4_Witness ==
  /\ last.op = "deleteChallenge"
  /\ last.err = "StorageError"
  /\ nextId.phase = 3
  /\ Cardinality({p \in DOMAIN phases : phases[p].challengeId = last.target}) = 1

\* C5: no two persisted challenges have the same collectionId.
C5_CollectionNotShared ==
  \A i, j \in DOMAIN challenges : i # j => challenges[i].collectionId # challenges[j].collectionId

\* C6: a createChallenge or updateChallenge request that ends in a validation
\* failure leaves the whole persisted state unchanged.
C6_FailureWritesNothing ==
  [][(last'.op \in {"createChallenge", "updateChallenge"} /\ last'.err = "ValidationException")
       => UNCHANGED Persisted]_vars

\* C10: subtreeCount of a challenge is 1 plus the number of its phases.
C10_SubtreeCount ==
  \A c \in DOMAIN challenges :
    Challenge_subtreeCount(DB, c) = 1 + Cardinality({p \in DOMAIN phases : phases[p].challengeId = c})

\* A challenge with two phases, and another challenge beside it.
C10_Witness ==
  /\ \E c \in DOMAIN challenges : Cardinality({p \in DOMAIN phases : phases[p].challengeId = c}) = 2
  /\ Cardinality(DOMAIN challenges) = 2

C8_JoinIdempotent ==
  [][(last'.op = "joinPhase" /\ last'.err = "ok") =>
       LET u == last'.user
           g == phases[last'.target].participantGroupId.id
       IN /\ InSeq(g, users'[u].groups)
          /\ InSeq(g, users[u].groups) => users' = users
          /\ (last.op = "joinPhase" /\ last.err = "ok" /\ last.user = u
                /\ last.target = last'.target) => users' = users]_vars

\* bob joined a phase whose participant group he was a member of already.
C8_Witness ==
  /\ last.op = "joinPhase"
  /\ last.err = "ok"
  /\ last.user = "bob"
  /\ last.arg = 0
  /\ InSeq(phases[last.target].participantGroupId.id, users["bob"].groups)

\* The level the claim names for each request, and the document it is on.
C9_Level(op) ==
  CASE op \in {"updateChallenge", "createPhase", "updatePhase"} -> WRITE
    [] op \in {"deleteChallenge", "getChallengeAccess", "updateChallengeAccess",
               "getPhaseAccess", "updatePhaseAccess"} -> ADMIN
    [] op = "listPhases" -> READ

C9_OnPhase == {"getPhaseAccess", "updatePhaseAccess", "updatePhase"}

C9_Ops == {"updateChallenge", "createPhase", "deleteChallenge", "getChallengeAccess",
           "updateChallengeAccess", "listPhases"} \cup C9_OnPhase

C9_Target(op, id) == IF op \in C9_OnPhase THEN phases[id] ELSE challenges[id]

\* C9: a request by a user whose access level on the target is below the
\* level the operation requires ends in an AccessException and changes no
\* persisted state.
C9_AccessDenied ==
  [][\A op \in C9_Ops :
       (last'.op = op
          /\ getAccessLevel(DB, C9_Target(op, last'.target), last'.user) < C9_Level(op))
       => (last'.err = "AccessException" /\ UNCHANGED Persisted)]_vars

\* bob, with WRITE on a challenge, was refused its deletion.
C9_Witness ==
  /\ last.op = "deleteChallenge"
  /\ last.err = "AccessException"
  /\ last.user = "bob"
  /\ last.target \in DOMAIN challenges
  /\ getAccessLevel(DB, challenges[last.target], "bob") = WRITE

\* C11: a PUT .../access by a caller with ADMIN on the target whose access
\* parameter is not valid JSON ends in the RestException ('The access
\* parameter must be JSON.'), on a challenge and on a phase alike, and leaves
\* the stored access list and public flag as they were.
C11_NotJSONRejected ==
  [][\A public \in BOOLEAN :
       /\ (/\ last'.op = "updateChallengeAccess"
           /\ getAccessLevel(DB, challenges[last'.target], last'.user) >= ADMIN
           /\ rest_updateChallengeAccess(last'.user, last'.target, public, NotJSON))
          => (last'.err = "RestException" /\ challenges' = challenges)
       /\ (/\ last'.op = "updatePhaseAccess"
           /\ getAccessLevel(DB, phases[last'.target], last'.user) >= ADMIN
           /\ rest_updatePhaseAccess(last'.user, last'.target, public, NotJSON))
          => (last'.err = "RestException" /\ phases' = phases)]_vars

\* The page the claim describes: of the documents S the user may read, those
\* with at least offset and fewer than offset + limit readable documents
\* before them, in sort order.
C12_Page(docs, S, user, limit, offset, page) ==
  LET R == {x \in S : getAccessLevel(DB, docs[x], user) >= READ}
      rank(x) == Cardinality({y \in R : Before(docs, y, x)})
  IN /\ \A i \in 1..Len(page) : page[i] \in R /\ rank(page[i]) = offset + i - 1
     /\ \A x \in R : (offset <= rank(x) /\ rank(x) < offset + limit) => InSeq(x, page)
     /\ Len(page) <= limit

C12_Step(limits) ==
  /\ (last'.op = "listChallenges" /\ last'.arg.limit \in limits)
     => C12_Page(challenges, DOMAIN challenges, last'.user,
                 last'.arg.limit, last'.arg.offset, last'.arg.page)
  /\ (last'.op = "listPhases" /\ last'.err = "ok" /\ last'.arg.limit \in limits)
     => C12_Page(phases, {p \in DOMAIN phases : phases[p].challengeId = last'.target},
                 last'.user, last'.arg.limit, last'.arg.offset, last'.arg.page)

C13_CreatePhaseAccess ==
  [][\A raw \in AccessNames, public \in BOOLEAN, g \in 0..MaxGroups :
       (/\ last'.op = "createPhase"
        /\ last'.err = "ok"
        /\ rest_createPhase(last'.user, last'.target, raw, public, g))
       => LET p == phases'[last'.id]
          IN /\ p.access.users[last'.user] = ADMIN
             /\ p.participantGroupId.id \in DOMAIN groups'
             /\ p.access.groups[p.participantGroupId.id] = READ
             /\ (g \in DOMAIN groups => p.participantGroupId.id = g)
             /\ p.public = public
             /\ folders'[p.groundTruthFolderId].public = FALSE
             /\ folders'[p.groundTruthFolderId].name = <<"Ground truth">>]_vars

\* bob made a public phase and passed in a participant group that existed.
C13_Witness ==
  /\ last.op = "createPhase"
  /\ last.err = "ok"
  /\ last.user = "bob"
  /\ last.arg # 0
  /\ phases[last.id].public
  /\ phases[last.id].participantGroupId.id = last.arg

\* C14: a deleteChallenge with progress sets the total to subtreeCount of the
\* challenge before anything is deleted; each Phase deletion and the deletion
\* of the challenge record is followed by one increment; the increments add
\* up to the total when the cascade completes and stay below it until then.
C14_Progress ==
  [][/\ (last'.op = "deleteChallenge" /\ last'.err = "running" /\ ctx'.on)
        => /\ ctx'.total = 1 + Cardinality({p \in DOMAIN phases :
                                              phases[p].challengeId = last'.target})
           /\ ctx'.current = 0
           /\ ctx'.current < ctx'.total
           /\ UNCHANGED Persisted
     /\ (last'.op = "remove_phase" /\ ctx.on)
        => /\ Cardinality(DOMAIN phases') = Cardinality(DOMAIN phases) - 1
           /\ challenges' = challenges
           /\ ctx'.current = ctx.current + 1
           /\ ctx'.total = ctx.total
           /\ ctx'.current < ctx'.total
     /\ (last'.op = "deleteChallenge" /\ last'.err = "ok" /\ ctx.on)
        => /\ last'.target \notin DOMAIN challenges'
           /\ phases' = phases
           /\ ctx'.current = ctx.current + 1
           /\ ctx'.total = ctx.total
           /\ ctx'.current = ctx'.total]_vars

\* The cascade of a challenge with one phase completed, with progress.
C14_Witness ==
  /\ last.op = "deleteChallenge"
  /\ last.err = "ok"
  /\ ctx.on
  /\ ctx.total = 2
  /\ ctx.current = ctx.total

\* C15: nothing stands between the query for a duplicate name and the write.
\* The write of a createChallenge call whose query has passed succeeds
\* whatever has been written since, and leaves the passed query of the other
\* call standing; so when both calls have passed the query for the same name
\* before either writes, both succeed and two challenges of that name are
\* persisted, on one collection or on two of the same name.
C15_CreateRace ==
  [][\A t \in Threads :
       (rm.create[t].pc = "validated" /\ rm'.create[t].pc = "idle")
       => /\ last'.err = "ok"
          /\ last'.id \notin DOMAIN challenges
          /\ last'.id \in DOMAIN challenges'
          /\ challenges'[last'.id].name = rm.create[t].doc.name
          /\ \A c \in DOMAIN challenges : challenges'[c] = challenges[c]
          /\ \A u \in Threads \ {t} : rm'.create[u] = rm.create[u]
          /\ \A c \in DOMAIN challenges :
               challenges[c].name = rm.create[t].doc.name
               => \/ challenges[c].collectionId = challenges'[last'.id].collectionId
                  \/ collections[challenges[c].collectionId].name
                       = collections[challenges'[last'.id].collectionId].name]_vars

\* Two challenges of one name are persisted, the second written by a call
\* that returned without an error.
C15_Witness ==
  /\ last.op = "createChallenge"
  /\ last.err = "ok"
  /\ \E c \in DOMAIN challenges :
       c # last.id /\ challenges[c].name = challenges[last.id].name

\* The string createPhase computed for a phase (no challenge or phase is
\* renamed under SpecShared, so the names stored are those of the creation).
C16_String(p) ==
  challenges[phases[p].challengeId].name \o <<" ">> \o phases[p].name \o <<" ", "participants">>

====
